---- MODULE Spec2Model ----
(***************************************************************************)
(* Model of the conversation-persistence engine of dkaberna/chatbot:       *)
(* SearchService.process_search_request, ChatService.delete_chat and       *)
(* update_chat_title, the repositories they call, and                      *)
(* TransactionManager.execute_in_transaction, over a PostgreSQL store      *)
(* under READ COMMITTED with the foreign key messages.chat_id -> chats.id. *)
(*                                                                         *)
(* Each request-handling worker owns one request session (self.db) and,    *)
(* while it is inside execute_in_transaction, one more connection-bound    *)
(* session.  A session is modelled by the rows it has flushed but not      *)
(* committed; the committed tables are what every other session reads.     *)
(* One action is one awaited step of a handler.                            *)
(***************************************************************************)
EXTENDS Integers, Sequences, FiniteSets, TLC

\* ------------------------------------------------------------ bounds
\* Total number of requests served in one behaviour.
MaxRequests == 2
\* Longest list of operations handed to execute_in_transaction.
MaxOps == 2

\* The pool of request-handling workers (requests overlap across workers).
Workers == {"w1", "w2"}
\* The (user_id, chat_title) pairs requests are made for.
Keys == {<<"alice", "t1">>, <<"alice", "t2">>, <<"bob", "t1">>}

\* The question text of request number n (every request asks a new one).
Question(n) == <<"q", n>>

\* ------------------------------------------------------------ values
\* chat = None
NoId == <<0, 0>>

\* Identifiers are uuid7 values: unique, never reused.  The k-th object
\* created by request number n gets <<n, k>>.
NewId(n, k) == <<n, k>>

\* A session with no transaction begun and nothing flushed.
NoSession ==
  [inTx |-> FALSE, ts |-> 0, newChats |-> {}, newMsgs |-> {},
   delChats |-> {}, delMsgs |-> {}]

NoRequest ==
  [kind |-> "none", user_id |-> "", chat_title |-> "", question |-> <<>>,
   new_title |-> "", dep |-> "", ops |-> <<>>, n |-> 0]

NoLocals ==
  [chat |-> NoId, messages |-> <<>>, bot_response |-> <<>>, created |-> FALSE,
   result |-> NoId, report |-> "", error |-> "", i |-> 0, made |-> {},
   gone |-> {}, results |-> <<>>, raises |-> "", began |-> FALSE,
   api_response |-> <<>>, found |-> <<>>, data |-> <<>>, call |-> <<>>]

VARIABLES
  chats,      \* committed rows of table chats
  messages,   \* committed rows of table messages
  clock,      \* the store's clock: now() of the last transaction begun
  serial,     \* number of requests started so far
  pc,         \* pc[w]: where worker w stands in its handler
  req,        \* req[w]: the request worker w is serving
  loc,        \* loc[w]: the handler's local variables
  db,         \* db[w]: the request session (self.db) of worker w
  tx,         \* tx[w]: the session opened by execute_in_transaction
  outcome     \* outcome[n]: what request number n ended with

vars == <<chats, messages, clock, serial, pc, req, loc, db, tx, outcome>>

\* What is known of the request worker w is serving, in the shape of the
\* entry `outcome` keeps of it once it has ended.
Current(w) ==
  [kind |-> req[w].kind, status |-> pc[w], error |-> loc[w].error,
   report |-> loc[w].report, user_id |-> req[w].user_id,
   chat_title |-> req[w].chat_title, chat |-> loc[w].chat, dep |-> req[w].dep,
   ops |-> req[w].ops, made |-> loc[w].made, gone |-> loc[w].gone]

\* Request number n as far as it has got: ended, or being served.
Known(n) ==
  IF n \in DOMAIN outcome THEN outcome[n]
  ELSE Current(CHOOSE w \in Workers : req[w].n = n)

\* The committed rows request number n wrote: the ids it generated.
RowsOf(n) ==
  {c.id : c \in {x \in chats : x.id[1] = n}}
    \cup {m.id : m \in {x \in messages : x.id[1] = n}}

\* ------------------------------------------------------------ the store
\* Chat: src/main/models/chat.py
Chat(id, user_id, chat_title, now) ==
  [id |-> id, user_id |-> user_id, chat_title |-> chat_title,
   created_at |-> now, updated_at |-> now]

\* Message: created_at is server_default now(), the start of the inserting
\* transaction.
Message(id, chat_id, role, content, now) ==
  [id |-> id, chat_id |-> chat_id, role |-> role, content |-> content,
   created_at |-> now]

Ids(rows) == {r.id : r \in rows}

\* What a statement of session s reads under READ COMMITTED: the committed
\* rows, less the rows s deleted, plus the rows s flushed.
VisibleChats(s) == {c \in chats : c.id \notin s.delChats} \cup s.newChats
\* A statement that also reads the message rows other sessions have flushed
\* and not committed (READ UNCOMMITTED).
DirtyMsgs(s) ==
  {m \in messages : m.id \notin s.delMsgs} \cup s.newMsgs
    \cup UNION {db[v].newMsgs : v \in Workers}

VisibleMsgs(s) == {m \in messages : m.id \notin s.delMsgs} \cup s.newMsgs

\* The tables after session s commits.
CommitChats(s) == VisibleChats(s)
CommitMsgs(s) == VisibleMsgs(s)

\* Session.execute / Session.add autobegin: the transaction starts at the
\* first use of the session and lasts until commit, rollback or close.
Begin(s, now) == IF s.inTx THEN s ELSE [s EXCEPT !.inTx = TRUE, !.ts = now]

\* The sessions of the other workers and the other session of this worker.
OtherSessions(w, which) ==
  {db[v] : v \in Workers \ {w}} \cup {tx[v] : v \in Workers \ {w}}
    \cup (IF which = "db" THEN {tx[w]} ELSE {db[w]})

\* ------------------------------------------------------------ repositories
\* The schema without the foreign key: no insert is refused.
NoForeignKey(chat_id, parents) == FALSE

\* ForeignKey("chats.id") on Message.chat_id, checked when a message row is
\* inserted: the parent must be a chat row the statement can see.
ForeignKeyViolated(chat_id, parents) == chat_id \notin Ids(parents)

\* The insert of a child row takes a key-share lock on its parent: it waits
\* while another open transaction has deleted that parent and not yet ended.
ParentLocked(w, which, chat_id) ==
  \E o \in OtherSessions(w, which) : chat_id \in o.delChats

\* A unique constraint on (user_id, chat_title).
UniqueTitle(row, others) ==
  \E c \in others : c.user_id = row.user_id /\ c.chat_title = row.chat_title

\* The constraints of table chats besides its primary key: the schema has
\* the plain Index('ix_user_chat_title', 'user_id', 'chat_title') and no
\* unique constraint, so no insert of a chat row is refused.
ChatConstraintViolated(row, others) == FALSE

\* in_transaction() answering False to a create that is inside a transaction.
in_transaction_false(s) == FALSE

\* Session.in_transaction()
in_transaction(s) == s.inTx

Stamp(row, ts) ==
  IF "updated_at" \in DOMAIN row
    THEN [row EXCEPT !.created_at = ts, !.updated_at = ts]
    ELSE [row EXCEPT !.created_at = ts]

\* BaseRepository.create on session s.  `fault` is a failure of the store
\* during the INSERT.  The result says whether it raised (after rolling the
\* session back), whether it committed, and the session it leaves.
create(s, table, row, fault, now) ==
  LET s1 == Begin(s, now)                      \* session.add(db_obj)
      obj == Stamp(row, s1.ts)
      s2 == IF table = "chats"
              THEN [s1 EXCEPT !.newChats = @ \cup {obj}]
              ELSE [s1 EXCEPT !.newMsgs = @ \cup {obj}]
      bad == \/ fault
             \/ table = "messages"
                  /\ ForeignKeyViolated(obj.chat_id, VisibleChats(s1))
             \/ table = "chats" /\ ChatConstraintViolated(obj, VisibleChats(s1))
  IN IF bad
       THEN [raised |-> TRUE, committed |-> FALSE, session |-> NoSession,
             obj |-> obj]
       ELSE [raised |-> FALSE, committed |-> ~in_transaction(s1),
             session |-> s2, obj |-> obj]

\* A lookup that never finds the Conversation.
get_by_none(s, user_id, chat_title) == {NoId}

\* The lookup by title alone, whoever the owner.
get_by_title(s, user_id, chat_title) ==
  LET hit == {c \in VisibleChats(s) : c.chat_title = chat_title}
  IN IF hit = {} THEN {NoId} ELSE Ids(hit)

\* ChatRepository.get_by_user_and_title: .first() of an unordered SELECT, so
\* any one of the matching rows; None when there is none.
get_by_user_and_title(s, user_id, chat_title) ==
  LET hit == {c \in VisibleChats(s) :
                c.user_id = user_id /\ c.chat_title = chat_title}
  IN IF hit = {} THEN {NoId} ELSE Ids(hit)

\* ORDER BY created_at DESC: the rows of `rows` once each, newest first.
RECURSIVE NewestFirst(_)
NewestFirst(rows) ==
  IF rows = {} THEN {<<>>}
  ELSE UNION {{<<m>> \o rest : rest \in NewestFirst(rows \ {m})} :
                m \in {x \in rows : \A y \in rows : x.created_at >= y.created_at}}

\* The sequences that list the rows of `rows` once each, ascending by
\* created_at; rows with equal created_at come in any order.
RECURSIVE OrderedBy(_)
OrderedBy(rows) ==
  IF rows = {} THEN {<<>>}
  ELSE UNION {{<<m>> \o rest : rest \in OrderedBy(rows \ {m})} :
                m \in {x \in rows : \A y \in rows : x.created_at <= y.created_at}}

\* MessageRepository.get_by_chat: ORDER BY created_at
get_by_chat(s, chat_id) ==
  OrderedBy({m \in VisibleMsgs(s) : m.chat_id = chat_id})

\* DELETE FROM messages without its WHERE clause.
DeleteAllMessages(s, chat_id) ==
  [s EXCEPT !.delMsgs = @ \cup Ids(messages), !.newMsgs = {}]

\* DELETE FROM messages WHERE chat_id = :chat_id
DeleteMessages(s, chat_id) ==
  [s EXCEPT !.delMsgs = @ \cup {m.id : m \in {x \in messages : x.chat_id = chat_id}},
            !.newMsgs = {m \in @ : m.chat_id # chat_id}]

\* The second DELETE left out.
DeleteChatNothing(s, chat_id) == s

\* DELETE FROM chats WHERE id = :chat_id
DeleteChat(s, chat_id) ==
  [s EXCEPT !.delChats = @ \cup (Ids(chats) \cap {chat_id}),
            !.newChats = {c \in @ : c.id # chat_id}]

\* The DELETE of a chat row fails while a message row the statement can see
\* still references it (the foreign key is NO ACTION).
StillReferenced(s, chat_id) ==
  chat_id \in Ids(VisibleChats(s))
    /\ \E m \in VisibleMsgs(s) : m.chat_id = chat_id

\* Row locks a DELETE waits for: a row another open transaction deleted, or,
\* for a chat row, one that another open transaction's insert references.
MessagesLocked(w, which, chat_id) ==
  \E o \in OtherSessions(w, which) :
    \E m \in messages : m.chat_id = chat_id /\ m.id \in o.delMsgs

ChatLocked(w, which, chat_id) ==
  \E o \in OtherSessions(w, which) :
    \/ chat_id \in o.delChats
    \/ chat_id \in Ids(chats) /\ \E m \in o.newMsgs : m.chat_id = chat_id

\* ------------------------------------------------------------ the provider
\* YouApiService.get_response: the JSON body of a 200 response, or one of
\* the three failures it raises.
ProviderFailures == {"configuration-missing", "upstream-error", "transport-error"}
ProviderBodies == {<<"answer", 1>>}

\* The answer of the provider dropped: the default text in every case.
AnswerDropped(body) == <<"No response", 0>>

\* api_response.get("answer", "No response")
AnswerOf(body) == IF body[1] = "answer" THEN body ELSE <<"No response", 0>>

\* What get_response raises for each failure: HTTPException with a status.
get_response_raises(e) ==
  CASE e = "configuration-missing" -> <<"HTTPException", "500">>
    [] e = "upstream-error" -> <<"HTTPException", "response.status_code">>
    [] e = "transport-error" -> <<"HTTPException", "503">>

\* os.getenv("YOU_API_KEY") when the service is built: unset or set.
ApiKeys == {"", "key"}

\* No request sent, so nothing came back.
NoReply == [exc |-> "", status_code |-> 0, text |-> <<>>]

\* What client.post(..., timeout=30.0) ends with: a response with a status
\* and a body (of a 200 response: JSON with an answer, or not JSON at all),
\* or an httpx.RequestError, the timeout of the bounded wait among them.
Replies ==
  {[exc |-> "", status_code |-> 200, text |-> body] : body \in ProviderBodies}
    \cup {[exc |-> "", status_code |-> 200, text |-> <<"html", 0>>]}
    \cup {[exc |-> "", status_code |-> sc, text |-> <<"error", sc>>] :
            sc \in {500, 503}}
    \cup {[exc |-> x, status_code |-> 0, text |-> <<>>] :
            x \in {"ConnectError", "ReadTimeout"}}

\* response.json() raises json.JSONDecodeError on a body that is not JSON.
IsJson(text) == text[1] # "html"

\* Nothing raised.
NoRaise == [type |-> "", status_code |-> 0, detail |-> <<>>]

\* YouApiService.get_response with this key and this end of the POST:
\* whether the request was sent, what it raises or returns, and the cause
\* of the failure.
get_response(api_key, reply) ==
  IF api_key = ""
    THEN [sent |-> FALSE, reply |-> NoReply, failure |-> "configuration-missing",
          raises |-> [type |-> get_response_raises("configuration-missing")[1],
                      status_code |-> 500,
                      detail |-> <<"YOU_API_KEY environment variable not set">>],
          returns |-> <<>>]
  ELSE IF reply.exc # ""
    THEN [sent |-> TRUE, reply |-> reply, failure |-> "transport-error",
          raises |-> [type |-> get_response_raises("transport-error")[1],
                      status_code |-> 503,
                      detail |-> <<"Service unavailable", reply.exc>>],
          returns |-> <<>>]
  ELSE IF reply.status_code # 200
    THEN [sent |-> TRUE, reply |-> reply, failure |-> "upstream-error",
          raises |-> [type |-> get_response_raises("upstream-error")[1],
                      status_code |-> reply.status_code,
                      detail |-> <<"You.com API error", reply.status_code,
                                   reply.text>>],
          returns |-> <<>>]
  ELSE IF ~IsJson(reply.text)
    THEN [sent |-> TRUE, reply |-> reply, failure |-> "malformed-response",
          raises |-> [type |-> "JSONDecodeError", status_code |-> 0,
                      detail |-> <<>>],
          returns |-> <<>>]
  ELSE [sent |-> TRUE, reply |-> reply, failure |-> "", raises |-> NoRaise,
        returns |-> reply.text]

\* except Exception as e: raise Exception(f"Failed to process search
\* request: {str(e)}"): whatever was raised inside process_search_request
\* leaves it as a plain Exception.
process_search_request_raises(e) == "Exception"

\* ------------------------------------------------------------ sessions of a request
\* The session providers a route can be wired to: get_db of the application
\* and get_test_db, which the test suite substitutes for it.
Deps == {"get_db", "get_test_db"}

\* get_db: yield db; finally: db.close().  Closing a session rolls back
\* whatever it has not committed.
get_db(s, raised) == [commit |-> FALSE]

\* get_test_db: yield session; session.commit(); on an exception rollback.
get_test_db(s, raised) == [commit |-> ~raised /\ s.inTx]

Exit(dep, s, raised) ==
  IF dep = "get_db" THEN get_db(s, raised) ELSE get_test_db(s, raised)

\* The rows one committed question-answering call for a new (alice, "t1")
\* leaves behind: request number n < 0, whose transaction began at time n.
Left(n) ==
  [chats |-> {Chat(NewId(n, 0), "alice", "t1", n)},
   messages |-> {Message(NewId(n, 1), NewId(n, 0), "user", Question(n), n),
                 Message(NewId(n, 2), NewId(n, 0), "assistant", <<"answer", 1>>, n)}]

\* The store when the application starts is durable state left by earlier
\* runs: empty; one conversation with one user/assistant pair; or two
\* conversations of the same (user_id, chat_title), which two overlapping
\* first calls for that pair leave behind.
Seeds ==
  {[chats |-> {}, messages |-> {}],
   Left(-1),
   [chats |-> Left(-1).chats \cup Left(-2).chats,
    messages |-> Left(-1).messages \cup Left(-2).messages]}

Init ==
  /\ \E seed \in Seeds : chats = seed.chats /\ messages = seed.messages
  /\ clock = 0
  /\ serial = 0
  /\ pc = [w \in Workers |-> "idle"]
  /\ req = [w \in Workers |-> NoRequest]
  /\ loc = [w \in Workers |-> NoLocals]
  /\ db = [w \in Workers |-> NoSession]
  /\ tx = [w \in Workers |-> NoSession]
  /\ outcome = <<>>

\* A new request reaches an idle worker; the route builds the service on a
\* fresh session.
Accept(w, kind, user_id, chat_title, question, new_title, dep, ops) ==
  /\ pc[w] = "idle"
  /\ serial < MaxRequests
  /\ serial' = serial + 1
  /\ req' = [req EXCEPT ![w] =
       [kind |-> kind, user_id |-> user_id, chat_title |-> chat_title,
        question |-> question, new_title |-> new_title, dep |-> dep,
        ops |-> ops, n |-> serial + 1]]

\* ------------------------------------------------------------ process_search_request
\* Step 1 run inside execute_in_transaction: the coordinator's session is
\* open from the lookup on.
AskLookupInTransaction(w) ==
  \E k \in Keys, d \in Deps :
    /\ Accept(w, "ask", k[1], k[2], Question(serial + 1), "", d, <<>>)
    /\ clock' = clock + 1
    /\ db' = [db EXCEPT ![w] = Begin(NoSession, clock + 1)]
    /\ tx' = [tx EXCEPT ![w] = Begin(NoSession, clock + 1)]
    /\ \E c \in get_by_user_and_title(NoSession, k[1], k[2]) :
         /\ loc' = [loc EXCEPT ![w] =
              [NoLocals EXCEPT !.chat = c,
                 !.messages = <<[role |-> "user", content |-> Question(serial + 1)]>>]]
         /\ pc' = [pc EXCEPT ![w] = IF c = NoId THEN "api" ELSE "history"]
    /\ UNCHANGED <<chats, messages, outcome>>

\* Step 1: chat = chat_repo.get_by_user_and_title(user_id, chat_title)
AskLookup(w) ==
  \E k \in Keys, d \in Deps :
   LET u == k[1]  t == k[2]  q == Question(serial + 1) IN
    /\ Accept(w, "ask", u, t, q, "", d, <<>>)
    /\ clock' = clock + 1
    /\ LET s == Begin(NoSession, clock + 1) IN
       /\ db' = [db EXCEPT ![w] = s]
       /\ \E c \in get_by_user_and_title(s, u, t) :
            /\ loc' = [loc EXCEPT ![w] =
                 [NoLocals EXCEPT !.chat = c,
                                  !.messages = <<[role |-> "user", content |-> q]>>]]
            /\ pc' = [pc EXCEPT ![w] = IF c = NoId THEN "api" ELSE "history"]
    /\ UNCHANGED <<chats, messages, tx, outcome>>

\* Step 2: previous_messages = message_repo.get_by_chat(chat.id), projected
\* to {role, content}, then the question appended.
AskHistory(w) ==
  /\ pc[w] = "history"
  /\ \E previous_messages \in get_by_chat(db[w], loc[w].chat) :
       loc' = [loc EXCEPT ![w].messages =
         [i \in 1..Len(previous_messages) |->
            [role |-> previous_messages[i].role,
             content |-> previous_messages[i].content]]
           \o <<[role |-> "user", content |-> req[w].question]>>]
  /\ pc' = [pc EXCEPT ![w] = "api"]
  /\ UNCHANGED <<chats, messages, clock, serial, req, db, tx, outcome>>

\* Step 3 with a retry: a failed provider call is made again.
AskApiRetries(w) ==
  /\ pc[w] = "api"
  /\ \E api_key \in ApiKeys, reply \in Replies :
       LET r == get_response(api_key, reply) IN
       /\ loc' = [loc EXCEPT ![w].api_response = r.returns,
                              ![w].bot_response =
                                IF r.failure # "" THEN <<>>
                                ELSE AnswerOf(r.returns),
                              ![w].messages = <<>>,
                              ![w].call = r]
       /\ pc' = [pc EXCEPT ![w] =
            IF r.failure # "" THEN "api"
            ELSE IF loc[w].chat = NoId THEN "create_chat" ELSE "user_msg"]
  /\ UNCHANGED <<chats, messages, clock, serial, req, db, tx, outcome>>

\* Step 3 with the provider's failure swallowed: the handler goes on to its
\* write phase with no answer.
AskApiSwallow(w) ==
  /\ pc[w] = "api"
  /\ \E e \in ProviderFailures :
       /\ loc' = [loc EXCEPT ![w].error = e, ![w].messages = <<>>,
                              ![w].bot_response = <<"No response", 0>>]
       /\ pc' = [pc EXCEPT ![w] =
            IF loc[w].chat = NoId THEN "create_chat" ELSE "user_msg"]
  /\ UNCHANGED <<chats, messages, clock, serial, req, db, tx, outcome>>

\* Step 3: api_response = you_api_service.get_response(messages)
AskApi(w) ==
  /\ pc[w] = "api"
  /\ \E api_key \in ApiKeys, reply \in Replies :
       LET r == get_response(api_key, reply) IN
       IF r.failure = ""
         THEN /\ loc' = [loc EXCEPT ![w].api_response = r.returns,
                                     ![w].bot_response = AnswerOf(r.returns),
                                     ![w].messages = <<>>,
                                     ![w].call = r]
              /\ pc' = [pc EXCEPT ![w] =
                   IF loc[w].chat = NoId THEN "create_chat" ELSE "user_msg"]
         ELSE /\ loc' = [loc EXCEPT ![w].error = r.failure,
                   ![w].messages = <<>>,
                   ![w].raises = process_search_request_raises(r.raises.type),
                   ![w].call = r]
              /\ pc' = [pc EXCEPT ![w] = "raised"]
  /\ UNCHANGED <<chats, messages, clock, serial, req, db, tx, outcome>>

\* The request session in autocommit: every create makes the rows of the
\* session durable at once.
AfterCreateCommits(w, r) ==
  /\ chats' = CommitChats(r.session)
  /\ messages' = CommitMsgs(r.session)
  /\ clock' = clock + 1
  /\ db' = [db EXCEPT ![w] = Begin(NoSession, clock + 1)]

\* What a create on the request session leaves in the store and the session:
\* a create that committed has made the session's rows durable, and its
\* refresh has begun the next transaction.
AfterCreate(w, r) ==
  /\ chats' = IF r.committed THEN CommitChats(r.session) ELSE chats
  /\ messages' = IF r.committed THEN CommitMsgs(r.session) ELSE messages
  /\ clock' = IF r.committed THEN clock + 1 ELSE clock
  /\ db' = [db EXCEPT ![w] =
       IF r.committed THEN Begin(NoSession, clock + 1) ELSE r.session]

\* Step 4, first part: chat = chat_repo.create(obj_in=new_chat)
AskCreateChat(w) ==
  /\ pc[w] = "create_chat"
  /\ \E fault \in BOOLEAN :
       LET r == create(db[w], "chats",
                       Chat(NewId(req[w].n, 0), req[w].user_id, req[w].chat_title, 0),
                       fault, clock)
       IN /\ AfterCreate(w, r)
          /\ IF r.raised
               THEN /\ loc' = [loc EXCEPT ![w].error = "write", ![w].report = pc[w],
                         ![w].raises =
                           process_search_request_raises("BaseInternalException")]
                    /\ pc' = [pc EXCEPT ![w] = "raised"]
               ELSE /\ loc' = [loc EXCEPT ![w].chat = r.obj.id, ![w].created = TRUE]
                    /\ pc' = [pc EXCEPT ![w] = "user_msg"]
  /\ UNCHANGED <<serial, req, tx, outcome>>

\* user_msg = message_repo.create(obj_in=user_message)
AskUserMsg(w) ==
  /\ pc[w] = "user_msg"
  /\ ~ParentLocked(w, "db", loc[w].chat)
  /\ \E fault \in BOOLEAN :
       LET r == create(db[w], "messages",
                       Message(NewId(req[w].n, 1), loc[w].chat, "user",
                               req[w].question, 0),
                       fault, clock)
       IN /\ AfterCreate(w, r)
          /\ IF r.raised
               THEN /\ loc' = [loc EXCEPT ![w].error = "write", ![w].report = pc[w],
                         ![w].raises =
                           process_search_request_raises("BaseInternalException")]
                    /\ pc' = [pc EXCEPT ![w] = "raised"]
               ELSE /\ loc' = loc
                    /\ pc' = [pc EXCEPT ![w] = "assistant_msg"]
  /\ UNCHANGED <<serial, req, tx, outcome>>

\* assistant_msg = message_repo.create(obj_in=assistant_message);
\* return assistant_msg
AskAssistantMsg(w) ==
  /\ pc[w] = "assistant_msg"
  /\ ~ParentLocked(w, "db", loc[w].chat)
  /\ \E fault \in BOOLEAN :
       LET r == create(db[w], "messages",
                       Message(NewId(req[w].n, 2), loc[w].chat, "assistant",
                               loc[w].bot_response, 0),
                       fault, clock)
       IN /\ AfterCreate(w, r)
          /\ IF r.raised
               THEN /\ loc' = [loc EXCEPT ![w].error = "write", ![w].report = pc[w],
                         ![w].raises =
                           process_search_request_raises("BaseInternalException")]
                    /\ pc' = [pc EXCEPT ![w] = "raised"]
               ELSE /\ loc' = [loc EXCEPT ![w].result = r.obj.id]
                    /\ pc' = [pc EXCEPT ![w] = "returned"]
  /\ UNCHANGED <<serial, req, tx, outcome>>

\* ------------------------------------------------------------ execute_in_transaction
\* The operations a list handed to execute_in_transaction is made of:
\* "op" and "_do_update" are the closures of delete_chat and
\* update_chat_title; "create_chat" and "create_message" are closures that
\* call BaseRepository.create with the session they are given.
Operations == {"op", "_do_update", "create_chat", "create_message"}

\* Where the handler stands when `operation` is awaited.
EntryPc(operation) ==
  CASE operation = "op" -> "del_messages"
    [] operation = "_do_update" -> "do_update"
    [] operation = "create_chat" -> "op_create_chat"
    [] operation = "create_message" -> "op_create_message"

\* for operation in operations: the i-th, or the return after the last.
Await(operations, i) ==
  IF i <= Len(operations) THEN EntryPc(operations[i]) ELSE "tm_commit"

\* The results with the first in last place.
AppendFront(results, result) == <<result>> \o results

\* results.append(result)
Collect(results, result) == Append(results, result)

\* async with self.engine.begin() as conn: session = AsyncSession(bind=conn);
\* await session.begin()
TmBegin(w) ==
  /\ pc[w] = "tm_begin"
  /\ clock' = clock + 1
  /\ tx' = [tx EXCEPT ![w] = Begin(NoSession, clock + 1)]
  /\ loc' = [loc EXCEPT ![w].i = 1, ![w].results = <<>>]
  /\ pc' = [pc EXCEPT ![w] = Await(req[w].ops, 1)]
  /\ UNCHANGED <<chats, messages, serial, req, db, outcome>>

\* The error path committing what the operations had done so far.
TmRaiseCommits(w, e) ==
  /\ chats' = CommitChats(tx[w])
  /\ messages' = CommitMsgs(tx[w])
  /\ tx' = [tx EXCEPT ![w] = NoSession]
  /\ loc' = [loc EXCEPT ![w].error = e, ![w].report = pc[w]]
  /\ pc' = [pc EXCEPT ![w] = "raised"]

\* The error path raising a generic error in place of the one it caught.
TmRaiseWrapped(w, e) ==
  /\ tx' = [tx EXCEPT ![w] = NoSession]
  /\ loc' = [loc EXCEPT ![w].error = "Exception", ![w].report = pc[w]]
  /\ pc' = [pc EXCEPT ![w] = "raised"]
  /\ UNCHANGED <<chats, messages>>

\* One session shared by all calls: the rollback of one call rolls back
\* what every call in progress has done.
TmRaiseShared(w, e) ==
  /\ tx' = [v \in Workers |-> NoSession]
  /\ loc' = [loc EXCEPT ![w].error = e, ![w].report = pc[w]]
  /\ pc' = [pc EXCEPT ![w] = "raised"]
  /\ UNCHANGED <<chats, messages>>

\* An operation raised e: await session.rollback(); raise e.  The error
\* leaves execute_in_transaction and the service method, which catch nothing.
TmRaise(w, e) ==
  /\ tx' = [tx EXCEPT ![w] = NoSession]
  /\ loc' = [loc EXCEPT ![w].error = e, ![w].report = pc[w]]
  /\ pc' = [pc EXCEPT ![w] = "raised"]
  /\ UNCHANGED <<chats, messages>>

\* The connection closed without its transaction being committed.
TmCommitDiscards(w) ==
  /\ pc[w] = "tm_commit"
  /\ tx' = [tx EXCEPT ![w] = NoSession]
  /\ pc' = [pc EXCEPT ![w] = "returned"]
  /\ UNCHANGED <<chats, messages, clock, serial, req, loc, db, outcome>>

\* All operations returned: return results, and leaving engine.begin()
\* commits the connection's transaction.
TmCommit(w) ==
  /\ pc[w] = "tm_commit"
  /\ chats' = CommitChats(tx[w])
  /\ messages' = CommitMsgs(tx[w])
  /\ tx' = [tx EXCEPT ![w] = NoSession]
  \* delete_chat: success = results[0]
  /\ loc' = [loc EXCEPT ![w].report =
       IF req[w].kind # "delete" THEN @
       ELSE IF loc[w].report = "True" THEN "success" ELSE "failure"]
  /\ pc' = [pc EXCEPT ![w] = "returned"]
  /\ UNCHANGED <<clock, serial, req, db, outcome>>

\* ------------------------------------------------------------ delete_chat
\* delete_chat without `if not chat: return None`: whatever the lookup
\* gave goes on to the coordinator.
DelLookupUnchecked(w) ==
  \E k \in Keys :
    /\ Accept(w, "delete", k[1], k[2], <<>>, "", "get_db", <<"op">>)
    /\ clock' = clock + 1
    /\ LET s == Begin(NoSession, clock + 1) IN
       /\ db' = [db EXCEPT ![w] = s]
       /\ \E c \in get_by_user_and_title(s, k[1], k[2]) :
            /\ loc' = [loc EXCEPT ![w] = [NoLocals EXCEPT !.chat = c]]
            /\ pc' = [pc EXCEPT ![w] = "tm_begin"]
    /\ UNCHANGED <<chats, messages, tx, outcome>>

\* chat = chat_repo.get_by_user_and_title(user_id, chat_title);
\* if not chat: return None
DelLookup(w) ==
  \E k \in Keys :
    /\ Accept(w, "delete", k[1], k[2], <<>>, "", "get_db", <<"op">>)
    /\ clock' = clock + 1
    /\ LET s == Begin(NoSession, clock + 1) IN
       /\ db' = [db EXCEPT ![w] = s]
       /\ \E c \in get_by_user_and_title(s, k[1], k[2]) :
            /\ loc' = [loc EXCEPT ![w] =
                 [NoLocals EXCEPT !.chat = c,
                                  !.report = IF c = NoId THEN "None" ELSE ""]]
            /\ pc' = [pc EXCEPT ![w] = IF c = NoId THEN "returned" ELSE "tm_begin"]
    /\ UNCHANGED <<chats, messages, tx, outcome>>

\* delete_chat_with_messages(chat.id, session=session), first statement:
\* begin if not in a transaction, then DELETE FROM messages.
DelMessages(w) ==
  /\ pc[w] = "del_messages"
  /\ ~MessagesLocked(w, "tx", loc[w].chat)
  /\ \E fault \in BOOLEAN :
       IF fault
         THEN TmRaise(w, "BaseInternalException") /\ clock' = clock
         ELSE /\ tx' = [tx EXCEPT ![w] =
                   DeleteMessages(IF in_transaction(tx[w]) THEN tx[w]
                                  ELSE Begin(tx[w], clock + 1), loc[w].chat)]
              /\ clock' = IF in_transaction(tx[w]) THEN clock ELSE clock + 1
              /\ loc' = [loc EXCEPT
                   ![w].gone = @ \cup {m.id : m \in {x \in messages :
                                                      x.chat_id = loc[w].chat}},
                   ![w].made = @ \ {m.id : m \in {x \in tx[w].newMsgs :
                                                     x.chat_id = loc[w].chat}}]
              /\ pc' = [pc EXCEPT ![w] = "del_chat"]
              /\ UNCHANGED <<chats, messages>>
  /\ UNCHANGED <<serial, req, db, outcome>>

\* delete_chat_with_messages, second statement: DELETE FROM chats; the
\* session was passed in, so no commit here; return True.
DelChatRow(w) ==
  /\ pc[w] = "del_chat"
  /\ ~ChatLocked(w, "tx", loc[w].chat)
  /\ \E fault \in BOOLEAN :
       IF fault \/ StillReferenced(tx[w], loc[w].chat)
         THEN TmRaise(w, "BaseInternalException")
         ELSE /\ tx' = [tx EXCEPT ![w] = DeleteChat(tx[w], loc[w].chat)]
              /\ loc' = [loc EXCEPT ![w].report = "True", ![w].i = @ + 1,
                   ![w].results = Collect(@, <<"True">>),
                   ![w].gone = @ \cup (Ids(chats) \cap {loc[w].chat}),
                   ![w].made = @ \ {loc[w].chat}]
              /\ pc' = [pc EXCEPT ![w] = Await(req[w].ops, loc[w].i + 1)]
              /\ UNCHANGED <<chats, messages>>
  /\ UNCHANGED <<clock, serial, req, db, outcome>>

\* ------------------------------------------------------------ update_chat_title
\* results = transaction_manager.execute_in_transaction([_do_update]); the
\* request session is not used before that.
RenameStart(w) ==
  \E k \in Keys, new_title \in {"t1", "t2"} :
    /\ Accept(w, "rename", k[1], k[2], <<>>, new_title, "get_db", <<"_do_update">>)
    /\ pc' = [pc EXCEPT ![w] = "tm_begin"]
    /\ UNCHANGED <<chats, messages, clock, loc, db, tx, outcome>>

\* The parameters of ChatRepository.get_by_user_and_title.
GetByUserAndTitleParams == {"self", "user_id", "chat_title"}

\* _do_update(session) begins with
\*   chat_repo.get_by_user_and_title(user_id, chat_title, session=session)
\* and that call raises TypeError: the method takes no session.
DoUpdate(w) ==
  /\ pc[w] = "do_update"
  /\ "session" \notin GetByUserAndTitleParams
  /\ TmRaise(w, "TypeError")
  /\ UNCHANGED <<clock, serial, req, db, outcome>>

\* ------------------------------------------------------------ the read methods
\* The users requests are made for.
Users == {k[1] : k \in Keys}

\* The row with this id among `rows`: the object a query returned.
RowOf(id, rows) == CHOOSE c \in rows : c.id = id

\* The dictionary get_chat_by_user_and_title and get_all_chats_by_user
\* build of a chat and the messages read for it.
ChatData(chat, msgs) ==
  [id |-> chat.id, user_id |-> chat.user_id, chat_title |-> chat.chat_title,
   created_at |-> chat.created_at, updated_at |-> chat.updated_at,
   messages |-> msgs]

\* The sequences that list the rows of `rows` once each, in any order: the
\* result of a SELECT without ORDER BY.
RECURSIVE AnyOrder(_)
AnyOrder(rows) ==
  IF rows = {} THEN {<<>>}
  ELSE UNION {{<<c>> \o rest : rest \in AnyOrder(rows \ {c})} : c \in rows}

\* A SELECT that leaves the WHERE clause on user_id out.
get_all_unfiltered(s, user_id) == AnyOrder(VisibleChats(s))

\* ChatRepository.get_all_by_user: select(Chat).where(Chat.user_id ==
\* user_id), .scalars().all()
get_all_by_user(s, user_id) ==
  AnyOrder({c \in VisibleChats(s) : c.user_id = user_id})

\* What get_chat_by_user_and_title can return when both of its statements
\* read the same state: no dictionary (None), or the dictionary of one
\* matching chat with its messages.
get_chat_by_user_and_title(s, user_id, chat_title) ==
  LET hit == {c \in VisibleChats(s) :
                c.user_id = user_id /\ c.chat_title = chat_title}
  IN IF hit = {} THEN {<<>>}
     ELSE UNION {{<<ChatData(c, msgs)>> : msgs \in get_by_chat(s, c.id)} :
                   c \in hit}

\* get_chat_by_user_and_title: chat = chat_repo.get_by_user_and_title(...);
\* if not chat: return None
GetLookup(w) ==
  \E k \in Keys :
    /\ Accept(w, "get", k[1], k[2], <<>>, "", "get_db", <<>>)
    /\ clock' = clock + 1
    /\ LET s == Begin(NoSession, clock + 1) IN
       /\ db' = [db EXCEPT ![w] = s]
       /\ \E c \in get_by_user_and_title(s, k[1], k[2]) :
            /\ loc' = [loc EXCEPT ![w] =
                 [NoLocals EXCEPT !.chat = c,
                    !.found = IF c = NoId THEN <<>>
                              ELSE <<RowOf(c, VisibleChats(s))>>,
                    !.report = IF c = NoId THEN "None" ELSE ""]]
            /\ pc' = [pc EXCEPT ![w] =
                 IF c = NoId THEN "returned" ELSE "get_messages"]
    /\ UNCHANGED <<chats, messages, tx, outcome>>

\* messages = message_repo.get_by_chat(chat.id); return the dictionary
GetMessages(w) ==
  /\ pc[w] = "get_messages"
  /\ \E msgs \in get_by_chat(db[w], loc[w].chat) :
       loc' = [loc EXCEPT ![w].data = <<ChatData(loc[w].found[1], msgs)>>]
  /\ pc' = [pc EXCEPT ![w] = "returned"]
  /\ UNCHANGED <<chats, messages, clock, serial, req, db, tx, outcome>>

\* get_all_chats_by_user: chats = chat_repo.get_all_by_user(user_id);
\* result = []
ListChats(w) ==
  \E u \in Users :
    /\ Accept(w, "list", u, "", <<>>, "", "get_db", <<>>)
    /\ clock' = clock + 1
    /\ LET s == Begin(NoSession, clock + 1) IN
       /\ db' = [db EXCEPT ![w] = s]
       /\ \E all \in get_all_by_user(s, u) :
            /\ loc' = [loc EXCEPT ![w] = [NoLocals EXCEPT !.found = all]]
            /\ pc' = [pc EXCEPT ![w] =
                 IF all = <<>> THEN "returned" ELSE "list_messages"]
    /\ UNCHANGED <<chats, messages, tx, outcome>>

\* for chat in chats: messages = message_repo.get_by_chat(chat.id);
\* result.append(chat_data); after the last chat, return result.
\* loc.found holds the chats the loop has still to visit.
ListMessages(w) ==
  /\ pc[w] = "list_messages"
  /\ LET chat == Head(loc[w].found) IN
     \E msgs \in get_by_chat(db[w], chat.id) :
       loc' = [loc EXCEPT ![w].data = Append(@, ChatData(chat, msgs)),
                          ![w].found = Tail(@)]
  /\ pc' = [pc EXCEPT ![w] =
       IF Len(loc[w].found) = 1 THEN "returned" ELSE "list_messages"]
  /\ UNCHANGED <<chats, messages, clock, serial, req, db, tx, outcome>>

\* ------------------------------------------------------------ lists of operations
\* The lists of one to MaxOps operations.
OpLists == UNION {[1..len -> Operations] : len \in 1..MaxOps}

\* The (user_id, chat_title) the lists of operations work on: the one that
\* may have conversations when the application starts.
BatchKey == <<"alice", "t1">>

\* A caller hands a list of operations to execute_in_transaction.  The
\* operations are closures over a (user_id, chat_title) and over the chat a
\* lookup gave the caller, None included.
Batch(w) ==
  \E k \in {BatchKey}, operations \in OpLists :
    \E c \in get_by_user_and_title(NoSession, k[1], k[2]) :
      /\ Accept(w, "batch", k[1], k[2], Question(serial + 1), "", "get_db",
                operations)
      /\ loc' = [loc EXCEPT ![w] = [NoLocals EXCEPT !.chat = c]]
      /\ pc' = [pc EXCEPT ![w] = "tm_begin"]
      /\ UNCHANGED <<chats, messages, clock, db, tx, outcome>>

\* What a create on the coordinator's session leaves in the store and the
\* session (a create that committed would have made its rows durable).
AfterCreateTm(w, r) ==
  /\ chats' = IF r.committed THEN CommitChats(r.session) ELSE chats
  /\ messages' = IF r.committed THEN CommitMsgs(r.session) ELSE messages
  /\ clock' = IF r.committed THEN clock + 1 ELSE clock
  /\ tx' = [tx EXCEPT ![w] =
       IF r.committed THEN Begin(NoSession, clock + 1) ELSE r.session]

\* An operation that is chat_repo.create(obj_in=..., session=session); the
\* operations after it work on the chat it made.
OpCreateChat(w) ==
  /\ pc[w] = "op_create_chat"
  /\ \E fault \in BOOLEAN :
       LET r == create(tx[w], "chats",
                       Chat(NewId(req[w].n, loc[w].i), req[w].user_id,
                            req[w].chat_title, 0),
                       fault, clock)
       IN IF r.raised
            THEN TmRaise(w, "BaseInternalException") /\ clock' = clock
            ELSE /\ AfterCreateTm(w, r)
                 /\ loc' = [loc EXCEPT ![w].chat = r.obj.id, ![w].i = @ + 1,
                                        ![w].made = @ \cup {r.obj.id},
                                        ![w].results = Collect(@, r.obj.id)]
                 /\ pc' = [pc EXCEPT ![w] = Await(req[w].ops, loc[w].i + 1)]
  /\ UNCHANGED <<serial, req, db, outcome>>

\* An operation that is message_repo.create(obj_in=..., session=session)
\* for the chat the list works on.
OpCreateMessage(w) ==
  /\ pc[w] = "op_create_message"
  /\ ~ParentLocked(w, "tx", loc[w].chat)
  /\ \E fault \in BOOLEAN :
       LET r == create(tx[w], "messages",
                       Message(NewId(req[w].n, loc[w].i), loc[w].chat, "user",
                               req[w].question, 0),
                       fault, clock)
       IN IF r.raised
            THEN TmRaise(w, "BaseInternalException") /\ clock' = clock
            ELSE /\ AfterCreateTm(w, r)
                 /\ loc' = [loc EXCEPT ![w].i = @ + 1,
                                        ![w].made = @ \cup {r.obj.id},
                                        ![w].results = Collect(@, r.obj.id)]
                 /\ pc' = [pc EXCEPT ![w] = Await(req[w].ops, loc[w].i + 1)]
  /\ UNCHANGED <<serial, req, db, outcome>>

\* ------------------------------------------------------------ the repository called directly
\* A caller builds ChatRepository(session) and calls
\* delete_chat_with_messages(chat_id) with no session argument, so on
\* self.db.  The chat id is any the caller may hold, that of no chat
\* included; its session may have been used before (a read has begun its
\* transaction) or not.
RepoDelStart(w) ==
  \E c \in Ids(chats) \cup {NoId}, used \in BOOLEAN :
    /\ Accept(w, "repo_delete", "", "", <<>>, "", "get_db", <<>>)
    /\ clock' = IF used THEN clock + 1 ELSE clock
    /\ db' = [db EXCEPT ![w] =
         IF used THEN Begin(NoSession, clock + 1) ELSE NoSession]
    /\ loc' = [loc EXCEPT ![w] = [NoLocals EXCEPT !.chat = c]]
    /\ pc' = [pc EXCEPT ![w] = "repo_del_messages"]
    /\ UNCHANGED <<chats, messages, tx, outcome>>

\* except Exception: if session is None: await self.db.rollback();
\* raise BaseInternalException
RepoDelRaise(w) ==
  /\ db' = [db EXCEPT ![w] = NoSession]
  /\ loc' = [loc EXCEPT ![w].error = "BaseInternalException",
                         ![w].report = pc[w]]
  /\ pc' = [pc EXCEPT ![w] = "raised"]
  /\ UNCHANGED <<chats, messages>>

\* db_session = session or self.db; if not db_session.in_transaction():
\* await db_session.begin(); then DELETE FROM messages.
RepoDelMessages(w) ==
  /\ pc[w] = "repo_del_messages"
  /\ ~MessagesLocked(w, "db", loc[w].chat)
  /\ \E fault \in BOOLEAN :
       IF fault
         THEN RepoDelRaise(w) /\ clock' = clock
         ELSE /\ db' = [db EXCEPT ![w] =
                   DeleteMessages(IF in_transaction(db[w]) THEN db[w]
                                  ELSE Begin(db[w], clock + 1), loc[w].chat)]
              /\ clock' = IF in_transaction(db[w]) THEN clock ELSE clock + 1
              /\ loc' = [loc EXCEPT
                   ![w].began = ~in_transaction(db[w]),
                   ![w].gone = @ \cup {m.id : m \in {x \in messages :
                                                      x.chat_id = loc[w].chat}}]
              /\ pc' = [pc EXCEPT ![w] = "repo_del_chat"]
              /\ UNCHANGED <<chats, messages>>
  /\ UNCHANGED <<serial, req, tx, outcome>>

\* DELETE FROM chats WHERE id = :chat_id
RepoDelChatRow(w) ==
  /\ pc[w] = "repo_del_chat"
  /\ ~ChatLocked(w, "db", loc[w].chat)
  /\ \E fault \in BOOLEAN :
       IF fault \/ StillReferenced(db[w], loc[w].chat)
         THEN RepoDelRaise(w)
         ELSE /\ db' = [db EXCEPT ![w] = DeleteChat(db[w], loc[w].chat)]
              /\ loc' = [loc EXCEPT
                   ![w].gone = @ \cup (Ids(chats) \cap {loc[w].chat})]
              /\ pc' = [pc EXCEPT ![w] = "repo_commit"]
              /\ UNCHANGED <<chats, messages>>
  /\ UNCHANGED <<clock, serial, req, tx, outcome>>

\* return True with the commit left out.
RepoDelCommitSkipped(w) ==
  /\ pc[w] = "repo_commit"
  /\ loc' = [loc EXCEPT ![w].report = "True"]
  /\ pc' = [pc EXCEPT ![w] = "returned"]
  /\ UNCHANGED <<chats, messages, clock, serial, req, db, tx, outcome>>

\* if session is None: await self.db.commit(); return True
RepoDelCommit(w) ==
  /\ pc[w] = "repo_commit"
  /\ chats' = CommitChats(db[w])
  /\ messages' = CommitMsgs(db[w])
  /\ db' = [db EXCEPT ![w] = NoSession]
  /\ loc' = [loc EXCEPT ![w].report = "True"]
  /\ pc' = [pc EXCEPT ![w] = "returned"]
  /\ UNCHANGED <<clock, serial, req, tx, outcome>>

\* ------------------------------------------------------------ end of a request
\* The route has returned or raised; the session provider finishes the
\* request session and the worker is free again.
Finish(w) ==
  /\ pc[w] \in {"returned", "raised"}
  /\ LET x == Exit(req[w].dep, db[w], pc[w] = "raised") IN
       /\ chats' = IF x.commit THEN CommitChats(db[w]) ELSE chats
       /\ messages' = IF x.commit THEN CommitMsgs(db[w]) ELSE messages
  /\ db' = [db EXCEPT ![w] = NoSession]
  /\ outcome' = outcome @@ (req[w].n :> Current(w))
  /\ pc' = [pc EXCEPT ![w] = "idle"]
  /\ req' = [req EXCEPT ![w] = NoRequest]
  /\ loc' = [loc EXCEPT ![w] = NoLocals]
  /\ UNCHANGED <<clock, serial, tx>>

Next ==
  \E w \in Workers :
    \/ AskLookup(w)
    \/ AskHistory(w)
    \/ AskApi(w)
    \/ AskCreateChat(w)
    \/ AskUserMsg(w)
    \/ AskAssistantMsg(w)
    \/ DelLookup(w)
    \/ TmBegin(w)
    \/ DelMessages(w)
    \/ DelChatRow(w)
    \/ TmCommit(w)
    \/ RenameStart(w)
    \/ DoUpdate(w)
    \/ GetLookup(w)
    \/ GetMessages(w)
    \/ ListChats(w)
    \/ ListMessages(w)
    \/ Finish(w)

Spec == Init /\ [][Next]_vars

\* The steps of a request already accepted by worker w.
Serve(w) ==
  \/ AskHistory(w)
  \/ AskApi(w)
  \/ AskCreateChat(w)
  \/ AskUserMsg(w)
  \/ AskAssistantMsg(w)
  \/ TmBegin(w)
  \/ DelMessages(w)
  \/ DelChatRow(w)
  \/ TmCommit(w)
  \/ DoUpdate(w)
  \/ GetMessages(w)
  \/ ListMessages(w)
  \/ Finish(w)

\* The event loop resumes every coroutine that can go on: a request whose
\* next step stays possible takes it. The provider call ends within its
\* timeout, and a wait for a row lock ends when the holder's request ends.
SpecLive == Spec /\ \A w \in Workers : WF_vars(Serve(w))

\* Strictly sequential use: a request is accepted only when no other is
\* being served.
AllIdle == \A w \in Workers : pc[w] = "idle"

NextSeq ==
  \E w \in Workers :
    \/ AllIdle /\ AskLookup(w)
    \/ AskHistory(w)
    \/ AskApi(w)
    \/ AskCreateChat(w)
    \/ AskUserMsg(w)
    \/ AskAssistantMsg(w)
    \/ AllIdle /\ DelLookup(w)
    \/ TmBegin(w)
    \/ DelMessages(w)
    \/ DelChatRow(w)
    \/ TmCommit(w)
    \/ AllIdle /\ RenameStart(w)
    \/ DoUpdate(w)
    \/ AllIdle /\ GetLookup(w)
    \/ GetMessages(w)
    \/ AllIdle /\ ListChats(w)
    \/ ListMessages(w)
    \/ Finish(w)

SpecSeq == Init /\ [][NextSeq]_vars

\* execute_in_transaction under every list of operations, lists overlapping
\* across workers.
NextTM ==
  \E w \in Workers :
    \/ Batch(w)
    \/ TmBegin(w)
    \/ OpCreateChat(w)
    \/ OpCreateMessage(w)
    \/ DelMessages(w)
    \/ DelChatRow(w)
    \/ DoUpdate(w)
    \/ TmCommit(w)
    \/ Finish(w)

SpecTM == Init /\ [][NextTM]_vars

\* delete_chat_with_messages called directly, overlapping
\* process_search_request and other direct calls.
NextRepo ==
  \E w \in Workers :
    \/ RepoDelStart(w)
    \/ RepoDelMessages(w)
    \/ RepoDelChatRow(w)
    \/ RepoDelCommit(w)
    \/ AskLookup(w)
    \/ AskHistory(w)
    \/ AskApi(w)
    \/ AskCreateChat(w)
    \/ AskUserMsg(w)
    \/ AskAssistantMsg(w)
    \/ Finish(w)

SpecRepo == Init /\ [][NextRepo]_vars

\* ------------------------------------------------------------ claims
\* C1: a process_search_request that fails in its write phase (on the
\* Conversation insert, the user Turn insert or the assistant Turn insert)
\* leaves no row it wrote visible: from the failure on, no committed row
\* carries an id that call generated.
C1_Atomicity ==
  \A n \in 1..serial :
    (Known(n).kind = "ask" /\ Known(n).status = "raised" /\ Known(n).error = "write")
      => RowsOf(n) = {}

\* C1 witness: a call whose assistant Turn insert failed, after it had
\* flushed the user Turn, has ended under the committing session provider.
C1_Witness ==
  \E n \in DOMAIN outcome :
    /\ outcome[n].kind = "ask" /\ outcome[n].error = "write"
    /\ outcome[n].report = "assistant_msg" /\ outcome[n].dep = "get_test_db"

\* C2: when process_search_request has returned the assistant Turn, the
\* Conversation it created and both Turns of the call are committed.
C2_CommitBeforeReturn ==
  \A w \in Workers :
    (req[w].kind = "ask" /\ pc[w] = "returned") =>
      /\ loc[w].chat \in Ids(chats)
      /\ {NewId(req[w].n, 1), NewId(req[w].n, 2)} \subseteq Ids(messages)

\* C3: in every committed state every Turn's conversation id is the id of an
\* existing Conversation.
C3_NoOrphans == \A m \in messages : m.chat_id \in Ids(chats)

\* C3 witness: a delete_chat overlaps a process_search_request on the same
\* conversation: the ask has flushed its user Turn, the delete has deleted
\* the Turns it saw and is about to delete the Conversation.
C3_Witness ==
  \E w, v \in Workers :
    /\ pc[w] = "assistant_msg" /\ pc[v] = "del_chat"
    /\ loc[w].chat = loc[v].chat
    /\ req[w].dep = "get_test_db"

\* The requests that have ended as returned calls of process_search_request
\* for (user_id, chat_title).
ReturnedAsks(user_id, chat_title) ==
  {n \in DOMAIN outcome :
     /\ outcome[n].kind = "ask" /\ outcome[n].status = "returned"
     /\ outcome[n].user_id = user_id /\ outcome[n].chat_title = chat_title}

\* No conversation of (user_id, chat_title) existed at the start and no
\* delete_chat has been made for it.
FreshKey(user_id, chat_title) ==
  /\ \A c \in Left(-1).chats : ~(c.user_id = user_id /\ c.chat_title = chat_title)
  /\ \A n \in 1..serial :
       ~(Known(n).kind = "delete" /\ Known(n).user_id = user_id
         /\ Known(n).chat_title = chat_title)

\* C4: under sequential use, once a process_search_request for a
\* previously unused (owner, title) has returned, exactly one Conversation
\* exists for the pair, and every returned call for the pair used it.
C4_FindOrCreate ==
  \A k \in Keys :
    (FreshKey(k[1], k[2]) /\ ReturnedAsks(k[1], k[2]) # {}) =>
      \E c \in chats :
        /\ \A x \in chats :
             (x.user_id = k[1] /\ x.chat_title = k[2]) <=> x = c
        /\ \A n \in ReturnedAsks(k[1], k[2]) : outcome[n].chat = c.id

\* The n-th element of a set of numbers, ascending.
RECURSIVE Ascending(_)
Ascending(S) ==
  IF S = {} THEN <<>>
  ELSE LET lo == CHOOSE x \in S : \A y \in S : x <= y
       IN <<lo>> \o Ascending(S \ {lo})

\* C5: after N returned, strictly sequential process_search_request calls
\* on one (owner, title), reading the conversation returns exactly 2N Turns
\* in the order user, assistant, user, assistant, ..., the k-th user Turn
\* carrying the k-th question.
C5_TranscriptOrder ==
  \A k \in Keys :
    (AllIdle /\ FreshKey(k[1], k[2]) /\ ReturnedAsks(k[1], k[2]) # {}) =>
      LET calls == Ascending(ReturnedAsks(k[1], k[2])) IN
      \A c \in get_by_user_and_title(NoSession, k[1], k[2]) :
        /\ c # NoId
        /\ \A turns \in get_by_chat(NoSession, c) :
             /\ Len(turns) = 2 * Len(calls)
             /\ \A j \in 1..Len(calls) :
                  /\ turns[2 * j - 1].role = "user"
                  /\ turns[2 * j - 1].content = Question(calls[j])
                  /\ turns[2 * j].role = "assistant"

\* C7: a process_search_request whose provider call failed has aborted with
\* an error and has inserted nothing: no row of that call is flushed or
\* committed, then or later.
C7_ProviderFailureWritesNothing ==
  /\ \A n \in 1..serial :
       (Known(n).kind = "ask" /\ Known(n).error \in ProviderFailures) =>
         Known(n).status = "raised" /\ RowsOf(n) = {}
  /\ \A w \in Workers :
       (req[w].kind = "ask" /\ loc[w].error \in ProviderFailures) =>
         db[w].newChats = {} /\ db[w].newMsgs = {}

\* C7 witness: a call on an existing conversation has ended with a provider
\* failure.
C7_Witness ==
  \E n \in DOMAIN outcome :
    /\ outcome[n].kind = "ask" /\ outcome[n].error = "upstream-error"
    /\ outcome[n].chat # NoId

\* C8: get_response is never invoked by a request while a session opened by
\* execute_in_transaction is open for that request.
C8_ProviderOutsideWriteContext ==
  \A w \in Workers : pc[w] = "api" => ~in_transaction(tx[w])

\* C8 witness: a request is at its provider call while another request is
\* inside execute_in_transaction.
C8_Witness ==
  \E w, v \in Workers : pc[w] = "api" /\ v # w /\ in_transaction(tx[v])

\* C9 as claimed: at the moment delete_chat reports success, a read of that
\* (owner, title) returns not-found and no Turn carries the conversation id.
C9_DeleteCompleteness ==
  [][\A w \in Workers :
       (req[w].kind = "delete" /\ pc[w] = "tm_commit" /\ pc'[w] = "returned"
        /\ loc'[w].report = "success") =>
         /\ \A c \in chats' :
              ~(c.user_id = req[w].user_id /\ c.chat_title = req[w].chat_title)
         /\ \A m \in messages' : m.chat_id # loc[w].chat]_vars

\* C9 amended: once delete_chat has reported success, the Conversation its
\* lookup returned does not exist and no Turn carries its id, so a read of
\* that (owner, title) returns not-found or another Conversation.
C9_DeletedConversationGone ==
  \A n \in 1..serial :
    (Known(n).kind = "delete" /\ Known(n).report = "success") =>
      /\ Known(n).chat \notin Ids(chats)
      /\ \A m \in messages : m.chat_id # Known(n).chat
      /\ Known(n).chat \notin
           get_by_user_and_title(NoSession, Known(n).user_id, Known(n).chat_title)

\* C9 witness: delete_chat has reported success for a conversation that had
\* two Turns.
C9_Witness ==
  \E n \in DOMAIN outcome :
    /\ outcome[n].kind = "delete" /\ outcome[n].report = "success"
    /\ outcome[n].chat \in Ids(Left(-1).chats)

\* C10: no step leaves a conversation half deleted: the Turns of a
\* Conversation that stays stay, a Conversation that goes leaves no Turn, and
\* a delete_chat that fails inside its transaction changes nothing, closes
\* its session and raises.
C10_DeleteNeverPartial ==
  [][/\ \A c \in chats :
          IF c.id \in Ids(chats')
            THEN \A m \in messages : m.chat_id = c.id => m \in messages'
            ELSE \A m \in messages' : m.chat_id # c.id
     /\ \A w \in Workers :
          (req[w].kind = "delete" /\ pc[w] \in {"del_messages", "del_chat"}
           /\ pc'[w] = "raised") =>
            /\ chats' = chats /\ messages' = messages
            /\ tx'[w] = NoSession
            /\ loc'[w].error = "BaseInternalException"]_vars

\* C10 witness: a delete_chat failed at the Conversation deletion, after its
\* Turn deletion, and the Conversation still has its Turns.
C10_Witness ==
  \E w \in Workers :
    /\ req[w].kind = "delete" /\ pc[w] = "raised" /\ loc[w].report = "del_chat"
    /\ loc[w].chat \in Ids(chats)
    /\ Cardinality({m \in messages : m.chat_id = loc[w].chat}) >= 2

\* The ids of all committed rows.
StoreIds == Ids(chats) \cup Ids(messages)

\* The committed rows that lists other than number n, having returned, have
\* deleted.
Erased(n) ==
  UNION {Known(m).gone :
           m \in {x \in 1..serial : x # n /\ Known(x).status = "returned"}}

\* C6: for every list of operations handed to execute_in_transaction: while
\* it runs and after an operation raised, nothing any of its operations did
\* is committed (no row it inserted exists, every row it deleted is still
\* there); once it has returned, everything its operations did is committed
\* (every row inserted exists, every row deleted is gone), the change
\* happening in the one step in which it returns.
C6_AllOrNothing ==
  \A n \in 1..serial :
    LET r == Known(n) IN
    r.kind \in {"batch", "delete", "rename"} =>
      IF r.status = "returned"
        THEN /\ RowsOf(n) \subseteq r.made
             /\ (r.made \ Erased(n)) \subseteq StoreIds
             /\ r.gone \cap StoreIds = {}
        ELSE /\ RowsOf(n) = {}
             /\ (r.gone \ Erased(n)) \subseteq StoreIds

\* C6 witness: a list of operations has ended with its last operation
\* raising after the operations before it had inserted or deleted rows.
C6_Witness ==
  \E n \in DOMAIN outcome :
    /\ outcome[n].kind = "batch" /\ outcome[n].status = "raised"
    /\ outcome[n].made \cup outcome[n].gone # {}

\* A request for (user_id, chat_title) finds a Conversation in the store.
Exists(user_id, chat_title) ==
  get_by_user_and_title(NoSession, user_id, chat_title) # {NoId}

\* C11: under sequential use, an update_chat_title(owner, old, new) on an
\* existing (owner, old) has, when it ends, returned the conversation with
\* title new: a read of (owner, new) finds that conversation and, new
\* differing from old, a read of (owner, old) finds nothing.
C11_RenameExisting ==
  \A w \in Workers :
    (/\ req[w].kind = "rename" /\ pc[w] \in {"returned", "raised"}
     /\ \E c \in chats : c.user_id = req[w].user_id
                          /\ c.chat_title \in {req[w].chat_title, req[w].new_title})
      => /\ pc[w] = "returned" /\ loc[w].error = ""
         /\ loc[w].result \in
              get_by_user_and_title(NoSession, req[w].user_id, req[w].new_title)
         /\ req[w].new_title # req[w].chat_title
              => ~Exists(req[w].user_id, req[w].chat_title)

\* C12: under sequential use, an update_chat_title(owner, old, new) when no
\* Conversation has (owner, old) has, when it ends, returned None and raised
\* nothing.
C12_RenameAbsent ==
  \A w \in Workers :
    (/\ req[w].kind = "rename" /\ pc[w] \in {"returned", "raised"}
     /\ ~Exists(req[w].user_id, req[w].chat_title))
      => pc[w] = "returned" /\ loc[w].report = "None" /\ loc[w].error = ""

\* The positions of a handler inside an operation of execute_in_transaction.
InOperation ==
  {"del_messages", "del_chat", "do_update", "op_create_chat", "op_create_message"}

\* The error an operation raises when it fails at position `at`: _do_update
\* fails with the TypeError of its first call, the repository methods with
\* the BaseInternalException they wrap every store error in.
RaisedBy(at) == IF at = "do_update" THEN "TypeError" ELSE "BaseInternalException"

\* C13: whenever an operation run by execute_in_transaction raises an error,
\* the step that leaves execute_in_transaction raises that same error, with
\* the session rolled back and the store as it was.
C13_ErrorIdentity ==
  [][\A w \in Workers :
       (pc[w] \in InOperation /\ pc'[w] = "raised") =>
         /\ loc'[w].error = RaisedBy(pc[w])
         /\ tx'[w] = NoSession
         /\ chats' = chats /\ messages' = messages]_vars

\* C13 witness: the second operation of a list raised TypeError and the list
\* has ended with it.
C13_Witness ==
  \E w \in Workers :
    /\ req[w].kind = "batch" /\ pc[w] = "raised"
    /\ loc[w].error = "TypeError" /\ loc[w].i = 2

\* What the i-th operation of the list worker w runs returns:
\* delete_chat_with_messages True, a create the object it made.
ResultOf(w, i) ==
  IF req[w].ops[i] = "op" THEN <<"True">> ELSE NewId(req[w].n, i)

\* C14: when execute_in_transaction has returned, every operation of the
\* list has run, in list order and once, and the list it returns has the
\* length of the list of operations, its i-th element the result of the i-th
\* operation.
C14_ResultOrder ==
  \A w \in Workers :
    (pc[w] = "returned" /\ loc[w].i > 0) =>
      /\ loc[w].i = Len(req[w].ops) + 1
      /\ Len(loc[w].results) = Len(req[w].ops)
      /\ \A i \in 1..Len(req[w].ops) : loc[w].results[i] = ResultOf(w, i)

\* C14 witness: a list of a chat creation followed by a message creation
\* has returned.
C14_Witness ==
  \E w \in Workers :
    /\ req[w].kind = "batch" /\ pc[w] = "returned"
    /\ req[w].ops = <<"create_chat", "create_message">>

\* C15: a delete_chat_with_messages invoked on a session with no
\* transaction open ends by raising, having deleted nothing.
C15_DeletePrecondition ==
  \A w \in Workers :
    (/\ req[w].kind = "repo_delete" /\ loc[w].began
     /\ pc[w] \in {"returned", "raised"})
      => pc[w] = "raised" /\ loc[w].report # "True"

\* C16: a delete_chat_with_messages called without a session that has
\* returned has returned True, and from then on neither the Conversation
\* row nor any Turn with its id exists; one that raised (a DELETE failed)
\* was rolled back.
C16_StandaloneDelete ==
  \A n \in 1..serial :
    LET r == Known(n) IN
    r.kind = "repo_delete" =>
      /\ r.status = "returned" =>
           /\ r.report = "True"
           /\ r.chat \notin Ids(chats)
           /\ \A m \in messages : m.chat_id # r.chat
      /\ r.status = "raised" =>
           /\ r.error = "BaseInternalException"
           /\ r.report \in {"repo_del_messages", "repo_del_chat"}
           /\ (r.gone \ Erased(n)) \subseteq StoreIds

\* C16 witness: a direct call on a conversation that had two Turns has
\* returned True.
C16_Witness ==
  \E n \in DOMAIN outcome :
    /\ outcome[n].kind = "repo_delete" /\ outcome[n].report = "True"
    /\ outcome[n].chat \in Ids(Left(-1).chats)
    /\ Cardinality(outcome[n].gone) = 3

\* C17: a delete_chat that found the conversation has, when it ends,
\* returned a report, success or failure, and has not raised.
C17_DeleteFailureIsReport ==
  \A w \in Workers :
    (/\ req[w].kind = "delete" /\ loc[w].chat # NoId
     /\ pc[w] \in {"returned", "raised"})
      => pc[w] = "returned" /\ loc[w].report \in {"success", "failure"}

\* The class the claim gives each failure of process_search_request.
Classified(e) ==
  CASE e = "configuration-missing" -> "service-misconfiguration"
    [] e \in {"upstream-error", "transport-error"} -> "service-unavailable"
    [] e = "write" -> "internal-error"
    [] OTHER -> "unclassified"

\* C18: two process_search_request calls that failed for causes of
\* different classes (missing credential, upstream or transport failure,
\* write failure) surfaced errors of different classes to their callers.
C18_ErrorClassification ==
  \A w, v \in Workers :
    (/\ req[w].kind = "ask" /\ pc[w] = "raised"
     /\ req[v].kind = "ask" /\ pc[v] = "raised"
     /\ Classified(loc[w].error) # Classified(loc[v].error))
      => loc[w].raises # loc[v].raises

\* C19: nothing refuses the Conversation insert of a call that read
\* not-found, whatever rows other calls have inserted for the same pair
\* since; and when two calls for one pair have both returned with a
\* Conversation of their own and both been committed, both rows exist
\* (until a delete removes them).
C19_DuplicateRace ==
  /\ \A w \in Workers :
       (req[w].kind = "ask" /\ pc[w] = "create_chat") =>
         ~create(db[w], "chats",
                 Chat(NewId(req[w].n, 0), req[w].user_id, req[w].chat_title, 0),
                 FALSE, clock).raised
  /\ \A n, m \in DOMAIN outcome :
       (/\ n # m
        /\ \A x \in {n, m} :
             /\ outcome[x].kind = "ask" /\ outcome[x].status = "returned"
             /\ outcome[x].dep = "get_test_db"
             /\ outcome[x].chat = NewId(x, 0)
        /\ outcome[n].user_id = outcome[m].user_id
        /\ outcome[n].chat_title = outcome[m].chat_title)
         => ({NewId(n, 0), NewId(m, 0)} \ Erased(0)) \subseteq Ids(chats)

\* C19 witness: a committed state holds two Conversation rows of one
\* (user_id, chat_title), both inserted by overlapping calls that read
\* not-found.
C19_Witness ==
  \E c, d \in chats :
    /\ c.id # d.id /\ c.id[1] > 0 /\ d.id[1] > 0
    /\ c.user_id = d.user_id /\ c.chat_title = d.chat_title

\* The place of the row with this id in a sequence of rows.
PlaceOf(id, turns) == CHOOSE i \in 1..Len(turns) : turns[i].id = id

\* C20: in every committed state, every read of a conversation that
\* process_search_request calls have written to, by created-at ascending,
\* places the user Turn of each call before the
\* assistant Turn of the same call, and all reads of one state return the
\* same order.
C20_OrderUnderWriters ==
  \A c \in {x \in chats : \E m \in messages : m.chat_id = x.id /\ m.id[1] > 0} :
    /\ Cardinality(get_by_chat(NoSession, c.id)) = 1
    /\ \A turns \in get_by_chat(NoSession, c.id) :
         \A n \in 1..serial :
           {NewId(n, 1), NewId(n, 2)} \subseteq
               {m.id : m \in {x \in messages : x.chat_id = c.id}}
             => PlaceOf(NewId(n, 1), turns) < PlaceOf(NewId(n, 2), turns)

\* The requests that are calls of the read methods.
Readers == {w \in Workers : req[w].kind \in {"get", "list"}}

\* Request number n is a process_search_request that has ended by returning.
AskDone(n) ==
  /\ n \in DOMAIN outcome
  /\ outcome[n].kind = "ask" /\ outcome[n].status = "returned"

\* The chat rows reader w has been given so far, and the dictionaries it has
\* built of them.
ChatsSeen(w) ==
  {loc[w].found[i].id : i \in 1..Len(loc[w].found)}
    \cup {loc[w].data[i].id : i \in 1..Len(loc[w].data)}

TurnsSeen(w, i) ==
  {loc[w].data[i].messages[j].id : j \in 1..Len(loc[w].data[i].messages)}

\* C21: whatever a get_chat_by_user_and_title or get_all_chats_by_user on
\* another session is given of a process_search_request, that call has
\* ended by returning; the reader is given the user Turn of a call exactly
\* when it is given its assistant Turn; and it is given a Conversation a call
\* created without that call's Turns only when the Conversation has been
\* deleted in between.
C21_NoMidFlightRead ==
  \A w \in Readers :
    /\ \A c \in ChatsSeen(w) : c[1] > 0 => AskDone(c[1])
    /\ \A i \in 1..Len(loc[w].data) :
         \A n \in 1..serial :
           /\ NewId(n, 1) \in TurnsSeen(w, i) <=> NewId(n, 2) \in TurnsSeen(w, i)
           /\ NewId(n, 1) \in TurnsSeen(w, i) => AskDone(n)
           /\ (loc[w].data[i].id = NewId(n, 0) /\ NewId(n, 1) \notin TurnsSeen(w, i))
                => NewId(n, 0) \notin Ids(chats)

\* C21 witness: a get_chat_by_user_and_title has returned a conversation
\* while a process_search_request on that conversation has flushed its user
\* Turn and not yet its assistant Turn.
C21_Witness ==
  \E w, v \in Workers :
    /\ req[w].kind = "get" /\ pc[w] = "returned" /\ Len(loc[w].data) = 1
    /\ req[v].kind = "ask" /\ pc[v] = "assistant_msg"
    /\ loc[v].chat = loc[w].chat
    /\ req[v].dep = "get_test_db"

\* C22: under sequential use, when a get_chat_by_user_and_title(owner,
\* title) has returned, a second call in the same store state returns the
\* same data: the same conversation with the same attributes and the same
\* Turns in the same order, or not-found both times.
C22_IdempotentLookup ==
  \A w \in Workers :
    (req[w].kind = "get" /\ pc[w] = "returned") =>
      \A again \in get_chat_by_user_and_title(NoSession, req[w].user_id,
                                              req[w].chat_title) :
        again = loc[w].data

Projected(m) == [role |-> m.role, content |-> m.content]

\* `sent` lists the rows of `rows` once each, ascending by created_at and
\* projected to {role, content}, and then the question, once.
HistoryOf(sent, rows, question) ==
  LET n == Cardinality(rows) IN
  /\ Len(sent) = n + 1
  /\ sent[n + 1] = [role |-> "user", content |-> question]
  /\ \E f \in [1..n -> rows] :
       /\ \A i, j \in 1..n : i # j => f[i] # f[j]
       /\ \A i, j \in 1..n : i < j => f[i].created_at <= f[j].created_at
       /\ \A i \in 1..n : sent[i] = Projected(f[i])

\* C24: the list of messages a process_search_request is about to pass to
\* get_response is, for a conversation the lookup found, the Turns the store
\* holds for it when they are read, ascending by created-at and projected to
\* {role, content}, followed by exactly one element {user, question}; for a
\* conversation the lookup did not find it is that one element alone.
C24_HistorySent ==
  [][\A w \in Workers :
       (pc[w] # "api" /\ pc'[w] = "api") =>
         IF pc[w] = "history"
           THEN HistoryOf(loc'[w].messages,
                          {m \in VisibleMsgs(db[w]) : m.chat_id = loc[w].chat},
                          req[w].question)
           ELSE /\ loc'[w].chat = NoId
                /\ loc'[w].messages =
                     <<[role |-> "user", content |-> req'[w].question]>>]_vars

\* C24 witness: a call is about to pass the provider a history of four
\* Turns, written by two earlier calls, and its question.
C24_Witness ==
  \E w \in Workers :
    /\ req[w].kind = "ask" /\ pc[w] = "api" /\ Len(loc[w].messages) = 5
    /\ \E m \in messages : m.chat_id = loc[w].chat /\ m.id[1] > 0

\* The rows the session of worker w has flushed.
Flushed(w) == tx[w].newChats \cup tx[w].newMsgs

\* C25: of overlapping execute_in_transaction calls each has a session of
\* its own, holding only what its own operations did; the results it
\* collects are those of its own operations; no step of one call touches the
\* session of another; a call that rolls back leaves the store as it is, and
\* a call that commits adds only rows it made and removes only rows it
\* deleted.
C25_ConcurrentCalls ==
  /\ [](\A w \in Workers :
          /\ \A r \in Flushed(w) : r.id[1] = req[w].n
          /\ \A i \in 1..Len(loc[w].results) :
               loc[w].results[i] = ResultOf(w, i))
  /\ [][\A w \in Workers :
          /\ tx'[w] # tx[w] => (pc'[w] # pc[w] \/ loc'[w] # loc[w])
          /\ (pc[w] \in InOperation /\ pc'[w] = "raised") =>
               chats' = chats /\ messages' = messages
          /\ (pc[w] = "tm_commit" /\ pc'[w] = "returned") =>
               /\ \A r \in (chats' \ chats) \cup (messages' \ messages) :
                    r.id \in loc[w].made
               /\ \A r \in (chats \ chats') \cup (messages \ messages') :
                    r.id \in loc[w].gone]_vars

\* C25 witness: a call has rolled back while a call that began before it
\* is inside its transaction with rows flushed.
C25_Witness ==
  \E w, v \in Workers :
    /\ req[w].kind = "batch" /\ pc[w] = "raised"
    /\ req[v].kind = "batch" /\ req[v].n < req[w].n
    /\ pc[v] \in InOperation \cup {"tm_commit"}
    /\ Flushed(v) # {}

\* `seq` lists the elements of the set `rows` once each.
ListsOnce(seq, rows) ==
  /\ Len(seq) = Cardinality(rows)
  /\ {seq[i] : i \in 1..Len(seq)} = rows

\* C26: get_all_chats_by_user(owner) is given by its query exactly the
\* Conversations whose owner is the argument, each once; for each it reads
\* the Turns of that Conversation, each once and created-at ascending; what
\* it returns has one dictionary per Conversation of the owner and none of
\* another owner; and when the owner has no Conversation it returns the
\* empty list, raising nothing.
C26_ListByOwner ==
  /\ [](\A w \in Workers :
          (req[w].kind = "list" /\ pc[w] \in {"returned", "raised"}) =>
            /\ pc[w] = "returned" /\ loc[w].error = "" /\ loc[w].found = <<>>
            /\ \A i \in 1..Len(loc[w].data) :
                 /\ loc[w].data[i].user_id = req[w].user_id
                 /\ \A j \in 1..Len(loc[w].data) :
                      loc[w].data[i].id = loc[w].data[j].id => i = j
                 /\ \A j \in 1..Len(loc[w].data[i].messages) :
                      loc[w].data[i].messages[j].chat_id = loc[w].data[i].id)
  /\ [][\A w \in Workers :
          /\ (pc[w] = "idle" /\ req'[w].kind = "list") =>
               LET mine == {c \in chats : c.user_id = req'[w].user_id} IN
               /\ ListsOnce(loc'[w].found, mine)
               /\ loc'[w].data = <<>>
               /\ mine = {} => pc'[w] = "returned"
          /\ (pc[w] = "list_messages" /\ loc'[w] # loc[w]) =>
               LET chat == Head(loc[w].found)
                   got == loc'[w].data[Len(loc'[w].data)]
               IN /\ loc'[w].data = Append(loc[w].data, got)
                  /\ got = ChatData(chat, got.messages)
                  /\ ListsOnce(got.messages,
                               {m \in messages : m.chat_id = chat.id})
                  /\ \A i, j \in 1..Len(got.messages) :
                       i < j => got.messages[i].created_at
                                  <= got.messages[j].created_at]_vars

\* C26 witness: one call has returned two Conversations of its owner, Turns
\* included, and another has returned the empty list for an owner without
\* Conversations.
C26_Witness ==
  \E w, v \in Workers :
    /\ req[w].kind = "list" /\ pc[w] = "returned" /\ Len(loc[w].data) = 2
    /\ \A i \in 1..2 : Len(loc[w].data[i].messages) = 2
    /\ req[v].kind = "list" /\ pc[v] = "returned" /\ loc[v].data = <<>>
    /\ \A c \in chats : c.user_id # req[v].user_id

\* C27: a delete_chat(owner, title) made when no Conversation has (owner,
\* title) returns None at once, without a session of the coordinator and
\* with the store unchanged, and stays that way until its request ends; a
\* get_chat_by_user_and_title for an absent pair likewise returns None and
\* raises nothing.
C27_AbsentConversation ==
  /\ [](\A w \in Workers :
          (req[w].kind \in {"delete", "get"} /\ loc[w].chat = NoId) =>
            /\ pc[w] = "returned" /\ loc[w].report = "None"
            /\ loc[w].error = "" /\ loc[w].data = <<>>
            /\ tx[w] = NoSession
            /\ loc[w].made = {} /\ loc[w].gone = {}
            /\ db[w].newChats \cup db[w].newMsgs = {}
            /\ db[w].delChats \cup db[w].delMsgs = {})
  /\ [][\A w \in Workers :
          /\ (/\ pc[w] = "idle" /\ req'[w].kind \in {"delete", "get"}
              /\ ~Exists(req'[w].user_id, req'[w].chat_title))
               => /\ loc'[w].chat = NoId
                  /\ chats' = chats /\ messages' = messages
          /\ (/\ req[w].kind \in {"delete", "get"} /\ loc[w].chat = NoId
              /\ pc'[w] # pc[w])
               => /\ pc'[w] = "idle"
                  /\ chats' = chats /\ messages' = messages]_vars

\* C27 witness: on a store that holds another conversation, a delete_chat
\* and a get_chat_by_user_and_title for absent pairs have both returned None.
C27_Witness ==
  \E w, v \in Workers :
    /\ req[w].kind = "delete" /\ pc[w] = "returned" /\ loc[w].report = "None"
    /\ req[v].kind = "get" /\ pc[v] = "returned" /\ loc[v].report = "None"
    /\ chats # {}

\* The committed Turns of a conversation with this role.
TurnsOf(chat_id, role) ==
  {m \in messages : m.chat_id = chat_id /\ m.role = role}

\* C28: in every committed state every Conversation has at least two Turns
\* and as many user Turns as assistant Turns, and the user Turn of a
\* process_search_request is there exactly when its assistant Turn is.
C28_CompletePairs ==
  /\ \A c \in chats :
       /\ Cardinality({m \in messages : m.chat_id = c.id}) >= 2
       /\ Cardinality(TurnsOf(c.id, "user"))
            = Cardinality(TurnsOf(c.id, "assistant"))
  /\ \A n \in 1..serial :
       NewId(n, 1) \in Ids(messages) <=> NewId(n, 2) \in Ids(messages)

\* C28 witness: a committed conversation holds four Turns, two of them
\* written by a call of this run, while another call on it has flushed its
\* user Turn only.
C28_Witness ==
  \E c \in chats :
    /\ Cardinality({m \in messages : m.chat_id = c.id}) = 4
    /\ \E m \in messages : m.chat_id = c.id /\ m.id[1] > 0
    /\ \E w \in Workers :
         req[w].kind = "ask" /\ pc[w] = "assistant_msg" /\ loc[w].chat = c.id

\* C29: every step leaves every committed Turn as it is, role, content,
\* conversation id and created-at included, or removes it together with its
\* Conversation, and then the step is the commit of a delete_chat of that
\* Conversation; and no process_search_request, update_chat_title,
\* get_chat_by_user_and_title or get_all_chats_by_user has a Turn deleted in
\* its sessions.
C29_TurnsImmutable ==
  /\ [](\A w \in Workers :
          req[w].kind \in {"ask", "rename", "get", "list"} =>
            db[w].delMsgs \cup tx[w].delMsgs = {})
  /\ [][\A m \in messages :
          IF m.id \in Ids(messages')
            THEN m \in messages'
            ELSE /\ m.chat_id \notin Ids(chats')
                 /\ \E w \in Workers :
                      /\ req[w].kind = "delete" /\ loc[w].chat = m.chat_id
                      /\ pc[w] = "tm_commit" /\ pc'[w] = "returned"]_vars

\* C29 witness: a delete_chat has removed one conversation with its Turns
\* and a process_search_request has returned, while Turns of another
\* conversation are still there.
C29_Witness ==
  \E w, v \in Workers :
    /\ req[w].kind = "delete" /\ pc[w] = "returned" /\ loc[w].report = "success"
    /\ Cardinality(loc[w].gone) = 3
    /\ req[v].kind = "ask" /\ pc[v] = "returned"
    /\ messages # {}

C31_NoConnectionAcrossCall ==
  \A w \in Workers :
    (req[w].kind = "ask" /\ pc[w] = "api") => ~in_transaction(db[w])

\* What BaseRepository.create leaves when the operation worker w stands at
\* calls it with the coordinator's session, the INSERT failing or not.
CreateByOperation(w, fault) ==
  IF pc[w] = "op_create_chat"
    THEN create(tx[w], "chats",
                Chat(NewId(req[w].n, loc[w].i), req[w].user_id,
                     req[w].chat_title, 0),
                fault, clock)
    ELSE create(tx[w], "messages",
                Message(NewId(req[w].n, loc[w].i), loc[w].chat, "user",
                        req[w].question, 0),
                fault, clock)

\* C32: a repository create called with the session of
\* execute_in_transaction neither commits nor rolls back that session,
\* whether its INSERT succeeds or fails: the session it leaves is still in
\* the caller's transaction and still holds what the operations before it
\* had flushed and deleted.
C32_RepositoryLeavesSession ==
  \A w \in Workers :
    pc[w] \in {"op_create_chat", "op_create_message"} =>
      \A fault \in BOOLEAN :
        LET r == CreateByOperation(w, fault) IN
        /\ ~r.committed
        /\ in_transaction(r.session)
        /\ tx[w].newChats \subseteq r.session.newChats
        /\ tx[w].newMsgs \subseteq r.session.newMsgs
        /\ tx[w].delChats = r.session.delChats
        /\ tx[w].delMsgs = r.session.delMsgs

\* C33: a provider call either returns the response or fails with exactly
\* one classified error: a missing API key fails before any request is
\* sent, a non-200 response fails carrying the upstream status and body, a
\* network failure (the timeout included) fails as a transport error.
Called(w) == req[w].kind = "ask" /\ loc[w].call # <<>>

C33_ProviderFailureClasses ==
  \A w \in Workers :
    Called(w) =>
      LET c == loc[w].call IN
        \/ /\ c.raises = NoRaise
           /\ c.sent /\ c.reply.exc = "" /\ c.reply.status_code = 200
           /\ c.returns = c.reply.text
        \/ /\ c.raises.type = "HTTPException"
           /\ c.returns = <<>>
           /\ \/ ~c.sent /\ c.reply = NoReply /\ c.raises.status_code = 500
              \/ /\ c.sent /\ c.reply.exc = "" /\ c.reply.status_code # 200
                 /\ c.raises.status_code = c.reply.status_code
                 /\ c.raises.detail[Len(c.raises.detail)] = c.reply.text
              \/ /\ c.sent /\ c.reply.exc # ""
                 /\ c.raises.status_code = 503

\* The rows request n has inserted, flushed in its session or durable.
Inserted(w) ==
  {r \in db[w].newChats \cup db[w].newMsgs \cup chats \cup messages :
     r.id[1] = req[w].n}

\* C34: the phases of one ask come in order: the lookup and the history read
\* first, then the provider, invoked at most once and never again after it
\* has answered or failed, and every insert only after the provider has
\* returned an answer; no insert precedes or overlaps the provider call, and
\* a call whose provider failed inserts nothing.
C34_PhaseOrder ==
  /\ [](\A w \in Workers :
          req[w].kind = "ask" =>
            /\ pc[w] \in {"history", "api"} <=> loc[w].call = <<>>
            /\ (loc[w].call = <<>> \/ loc[w].call.failure # "")
                 => Inserted(w) = {}
            /\ pc[w] \in {"create_chat", "user_msg", "assistant_msg", "returned"}
                 => loc[w].call # <<>> /\ loc[w].call.failure = "")
  /\ [][\A w \in Workers :
          (req[w].kind = "ask" /\ pc'[w] # pc[w]) =>
            /\ pc[w] = "history" => pc'[w] = "api"
            /\ pc[w] = "api" =>
                 pc'[w] \in {"create_chat", "user_msg", "raised"}
            /\ pc[w] = "create_chat" => pc'[w] \in {"user_msg", "raised"}
            /\ pc[w] = "user_msg" => pc'[w] \in {"assistant_msg", "raised"}
            /\ pc[w] = "assistant_msg" => pc'[w] \in {"returned", "raised"}
            /\ pc[w] \in {"returned", "raised"} => pc'[w] = "idle"
            /\ (loc[w].call # <<>> /\ pc'[w] # "idle")
                 => loc'[w].call = loc[w].call]_vars

\* An ask that went through the history read, an answered provider call and
\* all three inserts.
C34_Witness ==
  \E w \in Workers :
    /\ req[w].kind = "ask" /\ pc[w] = "returned"
    /\ loc[w].call # <<>> /\ loc[w].call.failure = ""
    /\ Cardinality(Inserted(w)) = 2
    /\ \E v \in Workers : v # w /\ req[v].kind = "ask" /\ pc[v] = "raised"
         /\ loc[v].call # <<>> /\ loc[v].call.failure = "transport-error"

\* Request n is a process_search_request being served.
Asking(n) == \E w \in Workers : req[w].n = n /\ req[w].kind = "ask"

\* Request n has ended.
Ended(n) == n \in DOMAIN outcome

\* The terminal outcomes of an ask: its two Turns committed; the provider
\* failed and nothing of the call is in the store; a write failed and nothing
\* of the call is in the store.
Persisted(n) ==
  /\ outcome[n].status = "returned"
  /\ {NewId(n, 1), NewId(n, 2)} \subseteq Ids(messages)
  /\ outcome[n].chat \in Ids(chats)

Aborted(n) ==
  /\ outcome[n].status = "raised" /\ outcome[n].error # "write"
  /\ RowsOf(n) = {}

Failed(n) ==
  /\ outcome[n].status = "raised" /\ outcome[n].error = "write"
  /\ RowsOf(n) = {}

\* Every ask ends.
AskEnds == \A n \in 1..MaxRequests : Asking(n) ~> Ended(n)

\* C35: under fair scheduling every process_search_request eventually
\* reaches one terminal outcome: persisted (committed), aborted (the provider
\* failed, nothing written) or failed (a write error, rolled back).
C35_TerminalOutcome ==
  \A n \in 1..MaxRequests :
    Asking(n) ~> (Ended(n) /\ (Persisted(n) \/ Aborted(n) \/ Failed(n)))

\* Two Conversations of one owner under one title.
SamePair(c, d) ==
  c # d /\ c.user_id = d.user_id /\ c.chat_title = d.chat_title

ChatsChanged == (chats' \ chats) \cup (chats \ chats')
TurnsChanged == (messages' \ messages) \cup (messages \ messages')

\* The Turn m belongs to a Conversation of user u.
TurnOf(m, u) ==
  \E c \in chats \cup chats' : c.id = m.chat_id /\ c.user_id = u

\* C37: a request made for one owner never touches what belongs to another,
\* even under the same title: every Conversation or Turn a step of an ask,
\* rename or delete adds or removes belongs to the owner the request names,
\* the rows its sessions hold and the Conversation it works on are that
\* owner's, and what get and list return holds only that owner's
\* Conversations with their own Turns.
C37_OwnerIsolation ==
  /\ [](\A w \in Workers :
          /\ \A c \in db[w].newChats \cup tx[w].newChats :
               c.user_id = req[w].user_id
          /\ \A m \in db[w].newMsgs \cup tx[w].newMsgs :
               m.chat_id = loc[w].chat
          /\ db[w].delChats \cup tx[w].delChats \subseteq {loc[w].chat}
          /\ req[w].kind \in {"ask", "delete", "rename", "get"} =>
               \A c \in chats \cup db[w].newChats :
                 c.id = loc[w].chat => c.user_id = req[w].user_id
          /\ req[w].kind \in {"get", "list"} =>
               /\ \A i \in 1..Len(loc[w].found) :
                    loc[w].found[i].user_id = req[w].user_id
               /\ \A i \in 1..Len(loc[w].data) :
                    /\ loc[w].data[i].user_id = req[w].user_id
                    /\ \A j \in 1..Len(loc[w].data[i].messages) :
                         loc[w].data[i].messages[j].chat_id = loc[w].data[i].id)
  /\ [][\A w \in Workers :
          pc'[w] # pc[w] =>
            /\ \A c \in ChatsChanged : c.user_id = req[w].user_id
            /\ \A m \in TurnsChanged : TurnOf(m, req[w].user_id)]_vars

\* bob has a committed Conversation titled "t1" with its two Turns, and a
\* delete_chat for alice's "t1" has reported success and removed alice's.
C37_Witness ==
  /\ \E c \in chats :
       /\ c.user_id = "bob" /\ c.chat_title = "t1"
       /\ Cardinality({m \in messages : m.chat_id = c.id}) = 2
  /\ \E n \in DOMAIN outcome :
       /\ outcome[n].kind = "delete" /\ outcome[n].user_id = "alice"
       /\ outcome[n].chat_title = "t1" /\ outcome[n].report = "success"
       /\ outcome[n].chat \in outcome[n].gone

\* The delete_chat requests known so far.
Deletes == {n \in 1..serial : Known(n).kind = "delete"}

\* C39: delete_chat reports success only if its own transaction removed the
\* Conversation, and of the delete_chat calls that found the same
\* Conversation at most one reports success.
C39_OneDeleteSucceeds ==
  /\ \A n \in Deletes :
       Known(n).report = "success" => Known(n).chat \in Known(n).gone
  /\ \A n, k \in Deletes :
       (n # k /\ Known(n).chat = Known(k).chat /\ Known(n).chat # NoId
        /\ Known(n).report = "success") => Known(k).report # "success"

\* C38: a successful delete_chat removes exactly one Conversation, the one
\* its lookup returned, and exactly the Turns that carry its id; every other
\* Conversation and Turn stays, another Conversation of the same (owner,
\* title) included.
C38_DeleteFrame ==
  [][\A w \in Workers :
       (req[w].kind = "delete" /\ pc[w] = "tm_commit" /\ pc'[w] = "returned"
        /\ loc'[w].report = "success") =>
         /\ \E c \in chats : c.id = loc[w].chat /\ chats' = chats \ {c}
         /\ messages' = {m \in messages : m.chat_id # loc[w].chat}]_vars

====
